---------------------------- MODULE Spec2Model ----------------------------
(***************************************************************************)
(* Model of the AEAD composition layer of tmthrgd/chacha20poly1305         *)
(* (src/chacha20poly1305.go): chacha20Key.Seal, chacha20Key.Open,          *)
(* chacha20Key.auth, sliceForAppend and the shared authPool.               *)
(*                                                                         *)
(* The two collaborators live outside the repository.  They are modelled   *)
(* by their contracts with small stand-ins that keep the structure that    *)
(* matters to the composition layer:                                       *)
(*   - the stream cipher is a deterministic keystream indexed by           *)
(*     (key, nonce, byte offset), consumed through a position;             *)
(*   - the MAC is a polynomial evaluation modulo a prime, keyed by (r, s)  *)
(*     taken from the 32-byte one-time key, serialised to 16 bytes.        *)
(* Bytes are integers in 0..255; slices are sequences of bytes.            *)
(***************************************************************************)
EXTENDS Integers, Sequences, FiniteSets, TLC

(***************************************************************************)
(* Program constants                                                       *)
(***************************************************************************)
KeySize == 32
TagSize == 16
Poly1305KeySize == 32
poly1305PadLen == 16
RFCNonceSize == 12
DraftNonceSize == 8
\* only the one-time key is taken from the stream before the data
PkLenSubkeyOnly == Poly1305KeySize

PkLen == 64

ErrNil == "nil"
ErrAuthFailed == "message authentication failed"
ErrInvalidKey == "invalid key size"
ErrInvalidNonce == "invalid nonce size"
ErrStreamInit == "chacha20: invalid key or nonce size"
PanicNone == "none"
PanicBounds == "slice bounds out of range"

(***************************************************************************)
(* Bounds of the model                                                     *)
(***************************************************************************)
NumCallers == 2
MaxLen == 2
MaxAad == 1

Callers == 1..NumCallers
MaxBufs == NumCallers
BufIds == 1..MaxBufs
NoBuf == 0

(***************************************************************************)
(* Byte and slice helpers                                                  *)
(***************************************************************************)
\* bit j of a XOR b, in place
XorBit(a, b, w) == w * ((((a \div w) % 2) + ((b \div w) % 2)) % 2)

XorByte(a, b) ==
    XorBit(a, b, 1) + XorBit(a, b, 2) + XorBit(a, b, 4) + XorBit(a, b, 8)
        + XorBit(a, b, 16) + XorBit(a, b, 32) + XorBit(a, b, 64) + XorBit(a, b, 128)

Zeros(n) == [i \in 1..n |-> 0]

Fill(n, b) == [i \in 1..n |-> b]

\* s[lo:hi] of Go, 0-based half-open, on a sequence
Slice(s, lo, hi) == SubSeq(s, lo + 1, hi)

\* copy(dst[off:], src): overwrite Len(src) bytes of arr starting at offset off
Overwrite(arr, off, src) ==
    [i \in 1..Len(arr) |->
        IF i > off /\ i <= off + Len(src) THEN src[i - off] ELSE arr[i]]

RECURSIVE SeqsUpTo(_, _)
SeqsUpTo(S, n) ==
    IF n = 0 THEN {<<>>}
    ELSE LET shorter == SeqsUpTo(S, n - 1)
         IN  shorter \cup {Append(s, b) : s \in {t \in shorter : Len(t) = n - 1}, b \in S}

\* binary.Write(m, binary.LittleEndian, uint64(n)) for the lengths of the model
LittleEndian64(n) ==
    [i \in 1..8 |-> IF i = 1 THEN n % 256
                    ELSE IF i = 2 THEN (n \div 256) % 256
                    ELSE IF i = 3 THEN (n \div 65536) % 256
                    ELSE 0]


(***************************************************************************)
(* Stream cipher collaborator (github.com/tmthrgd/chacha20).               *)
(* A cipher object is (key, nonce, pos): pos is the byte offset of the     *)
(* next keystream byte, 0 right after construction (block counter 0).      *)
(***************************************************************************)
RECURSIVE Weight(_, _, _)
Weight(s, lo, hi) ==
    IF lo > hi THEN 0
    ELSE IF lo = hi THEN (lo * (s[lo] + 1)) % 4093
    ELSE LET mid == (lo + hi) \div 2
         IN  (Weight(s, lo, mid) + (3 * Weight(s, mid + 1, hi))) % 4093

StreamSeed(key, nonce) ==
    ((Weight(key, 1, Len(key)) * 16) + Weight(nonce, 1, Len(nonce)) + Len(nonce)) % 65536

KeystreamByte(seed, p) ==
    ((((seed % 251) + 1) * (p + 3) * 37) + ((p \div 64) * 11) + (seed \div 251) + (p * p)) % 256

NoCipher == [live |-> FALSE, key |-> <<>>, nonce |-> <<>>, pos |-> 0]

\* chacha20.New(key, nonce)
ChaChaNew(key, nonce) ==
    IF Len(key) = KeySize /\ Len(nonce) \in {DraftNonceSize, RFCNonceSize}
    THEN [err |-> ErrNil, c |-> [live |-> TRUE, key |-> key, nonce |-> nonce, pos |-> 0]]
    ELSE [err |-> ErrStreamInit, c |-> NoCipher]

\* c.XORKeyStream(dst, src): dst[i] = src[i] XOR keystream, position advances
XORKeyStream(c, src) ==
    LET seed == StreamSeed(c.key, c.nonce)
    IN  [c   |-> [c EXCEPT !.pos = c.pos + Len(src)],
         out |-> [i \in 1..Len(src) |-> XorByte(src[i], KeystreamByte(seed, c.pos + i - 1))]]

(***************************************************************************)
(* MAC collaborator (github.com/tmthrgd/poly1305): a polynomial in r       *)
(* evaluated over the message modulo a prime, plus s, as 16 bytes.         *)
(***************************************************************************)
MacPrime == 32749

MacR(key) == 1 + ((key[1] + (256 * key[2])) % (MacPrime - 1))

MacS(key) == key[17] + (256 * key[18])

RECURSIVE PowMod(_, _)
PowMod(r, e) ==
    IF e = 0 THEN 1
    ELSE LET h == PowMod(r, e \div 2)
         IN  (((h * h) % MacPrime) * (IF e % 2 = 1 THEN r ELSE 1)) % MacPrime

\* the sum of (msg[i] + 256) * r^(hi - i + 1) over lo..hi, modulo the prime:
\* Horner's rule h := (h + block) * r over the bytes of the message
RECURSIVE MacPoly(_, _, _, _)
MacPoly(msg, lo, hi, r) ==
    IF lo > hi THEN 0
    ELSE IF lo = hi THEN ((msg[lo] + 256) * r) % MacPrime
    ELSE LET mid == (lo + hi) \div 2
         IN  ((MacPoly(msg, lo, mid, r) * PowMod(r, hi - mid))
                + MacPoly(msg, mid + 1, hi, r)) % MacPrime

\* m.Sum: the 16-byte tag of msg under the 32-byte one-time key
MacSum(key, msg) ==
    LET v == MacPoly(msg, 1, Len(msg), MacR(key)) + MacS(key)
    IN  [i \in 1..TagSize |->
            IF i = 1 THEN v % 256
            ELSE IF i = 2 THEN (v \div 256) % 256
            ELSE IF i = 3 THEN (v \div 65536) % 256
            ELSE 0]

\* subtle.ConstantTimeCompare(x, y) = 1
ConstantTimeCompare(x, y) == Len(x) = Len(y) /\ \A i \in 1..Len(x) : x[i] = y[i]

(***************************************************************************)
(* chacha20Key: the engine                                                 *)
(***************************************************************************)
NonceSizeSwapped(eng) == IF eng.draft THEN RFCNonceSize ELSE DraftNonceSize

NonceSize(eng) == IF eng.draft THEN DraftNonceSize ELSE RFCNonceSize

Overhead == TagSize

\* the nonce check of Seal and Open
NonceOKSkipped(eng, nonce) == TRUE

NonceOK(eng, nonce) == Len(nonce) = NonceSize(eng)

\* the length check of Open
TooShortOffByOne(ciphertext) == Len(ciphertext) < TagSize - 1

TooShort(ciphertext) == Len(ciphertext) < TagSize

\* sliceForAppend(in, n) where in = arr[:inlen] and cap(in) = Len(arr).
\* head is the content of the returned slice; alias tells whether it shares
\* the storage of in.
SliceForAppendNoCopy(arr, inlen, n) ==
    LET total == inlen + n
    IN  IF Len(arr) >= total
        THEN [alias |-> TRUE, head |-> Slice(arr, 0, total)]
        ELSE [alias |-> FALSE, head |-> Zeros(total)]

SliceForAppend(arr, inlen, n) ==
    LET total == inlen + n
    IN  IF Len(arr) >= total
        THEN [alias |-> TRUE, head |-> Slice(arr, 0, total)]
        ELSE [alias |-> FALSE, head |-> Overwrite(Zeros(total), 0, Slice(arr, 0, inlen))]

\* the padding lengths of auth
\* the padding is a whole block when the length is a multiple of 16
PadLenFullBlock(n) == poly1305PadLen - (n % poly1305PadLen)

PadLen(n) ==
    LET p == n % poly1305PadLen
    IN  IF p # 0 THEN poly1305PadLen - p ELSE 0

\* the byte chunks auth writes to the MAC, in order
AuthWritesNoData(draft, ciphertext, data) ==
    IF draft
    THEN << LittleEndian64(Len(data)),
            ciphertext, LittleEndian64(Len(ciphertext)) >>
    ELSE << Zeros(PadLen(Len(data))),
            ciphertext, Zeros(PadLen(Len(ciphertext))),
            LittleEndian64(Len(data)), LittleEndian64(Len(ciphertext)) >>

\* the lengths are written before the bytes they count
AuthWritesDocOrder(draft, ciphertext, data) ==
    IF draft
    THEN << LittleEndian64(Len(data)), data,
            LittleEndian64(Len(ciphertext)), ciphertext >>
    ELSE << data, Zeros(PadLen(Len(data))),
            ciphertext, Zeros(PadLen(Len(ciphertext))),
            LittleEndian64(Len(data)), LittleEndian64(Len(ciphertext)) >>

\* the draft variant pads like the RFC variant
AuthWritesDraftPadded(draft, ciphertext, data) ==
    IF draft
    THEN << data, Zeros(PadLen(Len(data))), LittleEndian64(Len(data)),
            ciphertext, Zeros(PadLen(Len(ciphertext))),
            LittleEndian64(Len(ciphertext)) >>
    ELSE << data, Zeros(PadLen(Len(data))),
            ciphertext, Zeros(PadLen(Len(ciphertext))),
            LittleEndian64(Len(data)), LittleEndian64(Len(ciphertext)) >>

\* the two length fields are left out
AuthWritesNoLengths(draft, ciphertext, data) ==
    IF draft
    THEN << data, ciphertext >>
    ELSE << data, Zeros(PadLen(Len(data))),
            ciphertext, Zeros(PadLen(Len(ciphertext))) >>

AuthWrites(draft, ciphertext, data) ==
    IF draft
    THEN << data, LittleEndian64(Len(data)),
            ciphertext, LittleEndian64(Len(ciphertext)) >>
    ELSE << data, Zeros(PadLen(Len(data))),
            ciphertext, Zeros(PadLen(Len(ciphertext))),
            LittleEndian64(Len(data)), LittleEndian64(Len(ciphertext)) >>

RECURSIVE Concat(_, _)
Concat(chunks, i) ==
    IF i > Len(chunks) THEN <<>> ELSE chunks[i] \o Concat(chunks, i + 1)

\* the byte stream auth feeds to the MAC
AuthFrame(draft, ciphertext, data) == Concat(AuthWrites(draft, ciphertext, data), 1)


\* NewRFC(key) and NewDraft(key): the engine holds a copy of the key
NewRFC(key) ==
    IF Len(key) # KeySize
    THEN [err |-> ErrInvalidKey, isNil |-> TRUE, eng |-> [key |-> <<>>, draft |-> FALSE]]
    ELSE [err |-> ErrNil, isNil |-> FALSE,
          eng |-> [key |-> [i \in 1..KeySize |-> key[i]], draft |-> FALSE]]

NewDraftAtLeast(key) ==
    IF Len(key) < KeySize
    THEN [err |-> ErrInvalidKey, isNil |-> TRUE, eng |-> [key |-> <<>>, draft |-> FALSE]]
    ELSE [err |-> ErrNil, isNil |-> FALSE,
          eng |-> [key |-> [i \in 1..KeySize |-> key[i]], draft |-> TRUE]]

NewDraft(key) ==
    IF Len(key) # KeySize
    THEN [err |-> ErrInvalidKey, isNil |-> TRUE, eng |-> [key |-> <<>>, draft |-> FALSE]]
    ELSE [err |-> ErrNil, isNil |-> FALSE,
          eng |-> [key |-> [i \in 1..KeySize |-> key[i]], draft |-> TRUE]]

\* New(key) behaves like NewDraft
New(key) == NewDraft(key)

\* the nil engine a failed constructor returns
NilEngine == [key |-> <<>>, draft |-> FALSE]

Constructors == {"NewRFC", "NewDraft", "New"}

Construct(fn, key) ==
    IF fn = "NewRFC" THEN NewRFC(key)
    ELSE IF fn = "NewDraft" THEN NewDraft(key)
    ELSE New(key)

\* k.key is an array inside the engine, filled by copy(k.key[:], key): a
\* later write of the caller to its own slice leaves the engine as it is
EngineAliasesKey(eng, arg) == [eng EXCEPT !.key = arg]

EngineAfterCallerWrite(eng, arg) == eng

(***************************************************************************)
(* Inputs of the model                                                     *)
(***************************************************************************)
KeyMults == {1, 3}
Keys == {[i \in 1..KeySize |-> (i * m) % 256] : m \in KeyMults}

PtBytes == {1, 200}
AadBytes == {7}
NonceVals == {9}
Masks == {1, 128}
PreFill == 42

Plaintexts(n) == SeqsUpTo(PtBytes, n)
AADs(n) == SeqsUpTo(AadBytes, n)

ValidNonces(eng) == {Fill(NonceSize(eng), v) : v \in NonceVals}

BadNonceLens(eng) ==
    {4, NonceSize(eng) - 3, NonceSize(eng) + 1, DraftNonceSize, RFCNonceSize}
        \ {NonceSize(eng)}

BadNonces(eng) == {Fill(n, 0) : n \in BadNonceLens(eng)}

\* a destination slice dst = arr[:len] over a caller buffer of cap bytes
BigCap == 1 + MaxLen + TagSize
DstConfigs == { [cap |-> 0, len |-> 0], [cap |-> 1, len |-> 1],
                [cap |-> BigCap, len |-> 0], [cap |-> BigCap, len |-> 1] }
OpenDsts == { [cap |-> 0, len |-> 0], [cap |-> BigCap, len |-> 0],
              [cap |-> BigCap, len |-> 1] }
DstNil == { [cap |-> 0, len |-> 0] }

\* nonce cut or extended to n bytes (nonce[:n] when n is smaller)
ResizeNonce(nonce, n) ==
    [i \in 1..n |-> IF i <= Len(nonce) THEN nonce[i] ELSE 0]

FlipAt(s, pos, mask) ==
    [i \in 1..Len(s) |-> IF i = pos + 1 THEN XorByte(s[i], mask) ELSE s[i]]

NoMsg == [has |-> FALSE, nonce |-> <<>>, pt |-> <<>>, aad |-> <<>>, ct |-> <<>>]

\* what a caller does with a sealed message h before handing it to Open
Scenarios(eng, h) ==
    LET n    == Len(h.ct)
        good == NonceSize(eng)
    IN  { [kind |-> "exact", pos |-> 0, mask |-> 0, nlen |-> good] }
        \cup { [kind |-> "flipct", pos |-> p, mask |-> m, nlen |-> good] :
                  p \in 0..(n - TagSize - 1), m \in Masks }
        \cup { [kind |-> "fliptag", pos |-> p, mask |-> 1, nlen |-> good] :
                  p \in (n - TagSize)..(n - 1) }
        \cup { [kind |-> "fliptag", pos |-> n - 1, mask |-> 128, nlen |-> good] }
        \cup { [kind |-> "flipaad", pos |-> p, mask |-> m, nlen |-> good] :
                  p \in 0..(Len(h.aad) - 1), m \in Masks }
        \cup { [kind |-> "trunc", pos |-> p, mask |-> 0, nlen |-> good] :
                  p \in 0..(n - 1) }
        \cup { [kind |-> "exact", pos |-> 0, mask |-> 0, nlen |-> l] :
                  l \in BadNonceLens(eng) }
        \cup { [kind |-> "trunc", pos |-> p, mask |-> 0, nlen |-> l] :
                  p \in {TagSize - 1}, l \in BadNonceLens(eng) }

ConcScenarios(eng, h) ==
    { [kind |-> "exact", pos |-> 0, mask |-> 0, nlen |-> NonceSize(eng)],
      [kind |-> "fliptag", pos |-> Len(h.ct) - 1, mask |-> 1, nlen |-> NonceSize(eng)] }

OpenNonce(h, sc) == ResizeNonce(h.nonce, sc.nlen)

OpenInput(h, sc) ==
    IF sc.kind \in {"flipct", "fliptag"} THEN FlipAt(h.ct, sc.pos, sc.mask)
    ELSE IF sc.kind = "trunc" THEN Slice(h.ct, 0, sc.pos)
    ELSE h.ct

OpenData(h, sc) ==
    IF sc.kind = "flipaad" THEN FlipAt(h.aad, sc.pos, sc.mask) ELSE h.aad

NoScen == [kind |-> "none", pos |-> 0, mask |-> 0, nlen |-> 0]

(***************************************************************************)
(* State                                                                   *)
(***************************************************************************)
VARIABLES
    k,          \* the engine: [key, draft]
    ctor,       \* how the engine was built, and the caller's key slice
    pc,         \* pc[c]: where caller c is inside its Seal or Open call
    call,       \* call[c]: arguments, locals and results of the call of c
    store,      \* store[c]: the array behind the dst slice caller c passes
    held,       \* held[c]: the last message caller c sealed
    authPool,   \* the buffers in the shared sync.Pool
    heap        \* heap[b]: content of MAC buffer b

vars == <<k, ctor, pc, call, store, held, authPool, heap>>

EmptyCall ==
    [op |-> "none", nonce |-> <<>>, input |-> <<>>, data |-> <<>>,
     dlen |-> 0, store0 |-> <<>>, scen |-> NoScen,
     c |-> NoCipher, pk |-> <<>>,
     alias |-> FALSE, head |-> <<>>,
     body |-> <<>>, tag |-> <<>>, expectedTag |-> <<>>,
     mkey |-> <<>>, mbuf |-> NoBuf,
     retNil |-> TRUE, ret |-> <<>>, err |-> ErrNil, panic |-> PanicNone]

NoCtor == [fn |-> "none", arg |-> <<>>, key0 |-> <<>>, err |-> ErrNil, isNil |-> TRUE]

\* the caller holds what fn(key) returned
Built(fn, key) ==
    LET r == Construct(fn, key)
    IN  /\ k = r.eng
        /\ ctor = [fn |-> fn, arg |-> key, key0 |-> key, err |-> r.err, isNil |-> r.isNil]

Idle ==
    /\ pc = [c \in Callers |-> "idle"]
    /\ call = [c \in Callers |-> EmptyCall]
    /\ store = [c \in Callers |-> <<>>]
    /\ held = [c \in Callers |-> NoMsg]
    /\ authPool = {}
    /\ heap = [b \in BufIds |-> <<>>]

Init ==
    /\ \E fn \in {"NewRFC", "NewDraft"}, key \in Keys : Built(fn, key)
    /\ Idle

(***************************************************************************)
(* Seal and Open, cut at the calls to auth.  Each piece maps the call      *)
(* record and the caller's array to the next program point.                *)
(***************************************************************************)
Stop(cl, arr) == [pc |-> "done", call |-> cl, store |-> arr]

\* Seal up to the call of k.auth
SealEnter(eng, base, arr) ==
    IF ~NonceOK(eng, base.nonce)
    THEN Stop([base EXCEPT !.panic = ErrInvalidNonce], arr)
    ELSE LET cn == ChaChaNew(eng.key, base.nonce)
         IN  IF cn.err # ErrNil
             THEN Stop([base EXCEPT !.panic = cn.err], arr)
             ELSE LET sfa  == SliceForAppend(arr, base.dlen, Len(base.input) + TagSize)
                      x1   == XORKeyStream(cn.c, Zeros(PkLen))
                      x2   == XORKeyStream(x1.c, base.input)
                      head == Overwrite(sfa.head, base.dlen, x2.out)
                  IN  [pc    |-> "auth_get",
                       call  |-> [base EXCEPT !.c = x2.c, !.pk = x1.out,
                                              !.alias = sfa.alias, !.head = head,
                                              !.body = x2.out,
                                              !.mkey = Slice(x1.out, 0, Poly1305KeySize)],
                       store |-> IF sfa.alias THEN Overwrite(arr, 0, head) ELSE arr]

\* Open up to the call of k.auth
OpenEnter(eng, base, arr) ==
    IF ~NonceOK(eng, base.nonce)
    THEN Stop([base EXCEPT !.err = ErrInvalidNonce], arr)
    ELSE IF TooShort(base.input)
    THEN Stop([base EXCEPT !.err = ErrAuthFailed], arr)
    ELSE IF Len(base.input) - TagSize < 0
    THEN Stop([base EXCEPT !.panic = PanicBounds], arr)
    ELSE LET n   == Len(base.input)
             tag == Slice(base.input, n - TagSize, n)
             ct  == Slice(base.input, 0, n - TagSize)
             cn  == ChaChaNew(eng.key, base.nonce)
         IN  IF cn.err # ErrNil
             THEN Stop([base EXCEPT !.err = cn.err, !.tag = tag, !.body = ct], arr)
             ELSE LET x1 == XORKeyStream(cn.c, Zeros(PkLen))
                  IN  [pc    |-> "auth_get",
                       call  |-> [base EXCEPT !.c = x1.c, !.pk = x1.out,
                                              !.tag = tag, !.body = ct,
                                              !.expectedTag = Zeros(TagSize),
                                              !.mkey = Slice(x1.out, 0, Poly1305KeySize)],
                       store |-> arr]

\* auth's m.Sum(out[:0]): the tag lands in out
StoreTag(cl, arr, tag) ==
    IF cl.op = "Seal"
    THEN LET head == Overwrite(cl.head, cl.dlen + Len(cl.input), tag)
         IN  [pc    |-> "seal_ret",
              call  |-> [cl EXCEPT !.head = head],
              store |-> IF cl.alias THEN Overwrite(arr, 0, head) ELSE arr]
    ELSE [pc |-> "open_verify", call |-> [cl EXCEPT !.expectedTag = tag], store |-> arr]

\* Seal after k.auth
SealExit(cl, arr) == Stop([cl EXCEPT !.retNil = FALSE, !.ret = cl.head], arr)

\* Open after k.auth
OpenVerifyLeaky(cl, arr) ==
    LET sfa  == SliceForAppend(arr, cl.dlen, Len(cl.body))
        x    == XORKeyStream(cl.c, cl.body)
        head == Overwrite(sfa.head, cl.dlen, x.out)
        st   == IF sfa.alias THEN Overwrite(arr, 0, head) ELSE arr
    IN  IF ~ConstantTimeCompare(cl.expectedTag, cl.tag)
        THEN Stop([cl EXCEPT !.c = x.c, !.alias = sfa.alias, !.head = head,
                             !.retNil = FALSE, !.ret = head, !.err = ErrAuthFailed], st)
        ELSE Stop([cl EXCEPT !.c = x.c, !.alias = sfa.alias, !.head = head,
                             !.retNil = FALSE, !.ret = head], st)

OpenVerifyNoDecrypt(cl, arr) ==
    IF ~ConstantTimeCompare(cl.expectedTag, cl.tag)
    THEN Stop([cl EXCEPT !.err = ErrAuthFailed], arr)
    ELSE LET sfa  == SliceForAppend(arr, cl.dlen, Len(cl.body))
             head == Overwrite(sfa.head, cl.dlen, cl.body)
         IN  Stop([cl EXCEPT !.alias = sfa.alias, !.head = head,
                              !.retNil = FALSE, !.ret = head],
                  IF sfa.alias THEN Overwrite(arr, 0, head) ELSE arr)

\* the plaintext is recovered with the keystream taken from position 0 again
OpenVerifyRewound(cl, arr) ==
    IF ~ConstantTimeCompare(cl.expectedTag, cl.tag)
    THEN Stop([cl EXCEPT !.err = ErrAuthFailed], arr)
    ELSE LET sfa  == SliceForAppend(arr, cl.dlen, Len(cl.body))
             x    == XORKeyStream([cl.c EXCEPT !.pos = 0], cl.body)
             head == Overwrite(sfa.head, cl.dlen, x.out)
         IN  Stop([cl EXCEPT !.c = x.c, !.alias = sfa.alias, !.head = head,
                              !.retNil = FALSE, !.ret = head],
                  IF sfa.alias THEN Overwrite(arr, 0, head) ELSE arr)

\* the plaintext is written to the output storage before the tags are compared
OpenVerifyDecryptFirst(cl, arr) ==
    LET sfa  == SliceForAppend(arr, cl.dlen, Len(cl.body))
        x    == XORKeyStream(cl.c, cl.body)
        head == Overwrite(sfa.head, cl.dlen, x.out)
        st   == IF sfa.alias THEN Overwrite(arr, 0, head) ELSE arr
    IN  IF ~ConstantTimeCompare(cl.expectedTag, cl.tag)
        THEN Stop([cl EXCEPT !.c = x.c, !.err = ErrAuthFailed], st)
        ELSE Stop([cl EXCEPT !.c = x.c, !.alias = sfa.alias, !.head = head,
                             !.retNil = FALSE, !.ret = head], st)

OpenVerify(cl, arr) ==
    IF ~ConstantTimeCompare(cl.expectedTag, cl.tag)
    THEN Stop([cl EXCEPT !.err = ErrAuthFailed], arr)
    ELSE LET sfa  == SliceForAppend(arr, cl.dlen, Len(cl.body))
             x    == XORKeyStream(cl.c, cl.body)
             head == Overwrite(sfa.head, cl.dlen, x.out)
         IN  Stop([cl EXCEPT !.c = x.c, !.alias = sfa.alias, !.head = head,
                              !.retNil = FALSE, !.ret = head],
                  IF sfa.alias THEN Overwrite(arr, 0, head) ELSE arr)

(***************************************************************************)
(* authPool                                                                *)
(***************************************************************************)
InUse == {call[c].mbuf : c \in Callers} \ {NoBuf}

FreeBufs == BufIds \ (authPool \cup InUse)

\* authPool.Get() hands out b: the pool no longer holds it
PoolAfterGetKeeps(pool, b) == pool

PoolAfterGet(pool, b) == pool \ {b}

\* authPool.Put(b)
PoolAfterPut(pool, b) == pool \cup {b}

(***************************************************************************)
(* Actions                                                                 *)
(***************************************************************************)
Goto(c, nxt) ==
    /\ pc' = [pc EXCEPT ![c] = nxt.pc]
    /\ call' = [call EXCEPT ![c] = nxt.call]
    /\ store' = [store EXCEPT ![c] = nxt.store]

\* caller c calls k.Seal(dst, nonce, plaintext, data)
SealBegin(c, dsts, nonces, pts, aads) ==
    /\ pc[c] = "idle"
    /\ \E dc \in dsts, nonce \in nonces, pt \in pts, data \in aads :
          LET arr  == Fill(dc.cap, PreFill)
              base == [EmptyCall EXCEPT !.op = "Seal", !.nonce = nonce,
                                        !.input = pt, !.data = data,
                                        !.dlen = dc.len, !.store0 = arr]
          IN  Goto(c, SealEnter(k, base, arr))
    /\ UNCHANGED <<k, ctor, held, authPool, heap>>

\* caller c calls k.Open(dst, nonce, ciphertext, data) on a message it sealed
OpenBegin(c, dsts, scens) ==
    /\ pc[c] = "idle"
    /\ held[c].has
    /\ \E dc \in dsts :
          LET arr == Fill(dc.cap, PreFill)
              h   == held[c]
          IN  \E sc \in IF scens = "all" THEN Scenarios(k, h) ELSE ConcScenarios(k, h) :
                  LET base == [EmptyCall EXCEPT !.op = "Open",
                                                !.nonce = OpenNonce(h, sc),
                                                !.input = OpenInput(h, sc),
                                                !.data = OpenData(h, sc),
                                                !.dlen = dc.len, !.store0 = arr,
                                                !.scen = sc]
                  IN  Goto(c, OpenEnter(k, base, arr))
    /\ UNCHANGED <<k, ctor, held, authPool, heap>>

\* auth: poly1305.New(key) and b.SetBuffer(authPool.Get())
AuthGet(c) ==
    /\ pc[c] = "auth_get"
    /\ IF Len(call[c].mkey) # Poly1305KeySize
       THEN /\ pc' = [pc EXCEPT ![c] = "done"]
            /\ call' = [call EXCEPT ![c].panic = "poly1305: invalid key size"]
            /\ UNCHANGED <<authPool, heap>>
       ELSE \/ \E b \in authPool :
                 /\ authPool' = PoolAfterGet(authPool, b)
                 /\ heap' = [heap EXCEPT ![b] = <<>>]
                 /\ call' = [call EXCEPT ![c].mbuf = b]
                 /\ pc' = [pc EXCEPT ![c] = "auth_write"]
            \/ /\ FreeBufs # {}
               /\ LET b == CHOOSE x \in FreeBufs : \A y \in FreeBufs : x <= y
                  IN  /\ heap' = [heap EXCEPT ![b] = <<>>]
                      /\ call' = [call EXCEPT ![c].mbuf = b]
               /\ pc' = [pc EXCEPT ![c] = "auth_write"]
               /\ UNCHANGED authPool
    /\ UNCHANGED <<k, ctor, store, held>>

\* auth: the writes of the frame to the MAC
AuthWrite(c) ==
    /\ pc[c] = "auth_write"
    /\ LET cl == call[c]
       IN  heap' = [heap EXCEPT ![cl.mbuf] =
                        @ \o AuthFrame(k.draft, cl.body, cl.data)]
    /\ pc' = [pc EXCEPT ![c] = "auth_sum"]
    /\ UNCHANGED <<k, ctor, call, store, held, authPool>>

\* auth: m.Sum(out[:0]) and authPool.Put(b.GetBuffer()).  The bytes left in
\* a buffer that went back to the pool are dead (SetBuffer starts the next
\* use at length 0), so the model drops them here.
AuthSum(c) ==
    /\ pc[c] = "auth_sum"
    /\ LET cl  == call[c]
           nxt == StoreTag(cl, store[c], MacSum(cl.mkey, heap[cl.mbuf]))
       IN  /\ Goto(c, [nxt EXCEPT !.call.mbuf = NoBuf])
           /\ authPool' = PoolAfterPut(authPool, cl.mbuf)
           /\ heap' = [heap EXCEPT ![cl.mbuf] = <<>>]
    /\ UNCHANGED <<k, ctor, held>>

\* Seal returns ret
SealReturn(c) ==
    /\ pc[c] = "seal_ret"
    /\ Goto(c, SealExit(call[c], store[c]))
    /\ UNCHANGED <<k, ctor, held, authPool, heap>>

\* Open compares the tags, decrypts and returns
OpenFinish(c) ==
    /\ pc[c] = "open_verify"
    /\ Goto(c, OpenVerify(call[c], store[c]))
    /\ UNCHANGED <<k, ctor, held, authPool, heap>>

\* the caller takes the outcome of its call; a sealed message is kept
Collect(c) ==
    /\ pc[c] = "done"
    /\ pc' = [pc EXCEPT ![c] = "idle"]
    /\ held' = [held EXCEPT ![c] =
                  IF call[c].op = "Seal" /\ call[c].panic = PanicNone
                  THEN [has |-> TRUE, nonce |-> call[c].nonce, pt |-> call[c].input,
                        aad |-> call[c].data,
                        ct |-> Slice(call[c].ret, call[c].dlen, Len(call[c].ret))]
                  ELSE @]
    /\ call' = [call EXCEPT ![c] = EmptyCall]
    /\ store' = [store EXCEPT ![c] = <<>>]
    /\ UNCHANGED <<k, ctor, authPool, heap>>

\* one caller, the full input space
Next ==
    \/ SealBegin(1, DstConfigs, ValidNonces(k) \cup BadNonces(k), Plaintexts(MaxLen), AADs(MaxAad))
    \/ OpenBegin(1, OpenDsts, "all")
    \/ AuthGet(1)
    \/ AuthWrite(1)
    \/ AuthSum(1)
    \/ SealReturn(1)
    \/ OpenFinish(1)
    \/ Collect(1)

Spec == Init /\ [][Next]_vars

\* every caller, running concurrently on the one engine
NextConc ==
    \E c \in Callers :
        \/ SealBegin(c, DstNil, ValidNonces(k), {<<c>>}, {<<7>>})
        \/ OpenBegin(c, DstNil, "conc")
        \/ AuthGet(c)
        \/ AuthWrite(c)
        \/ AuthSum(c)
        \/ SealReturn(c)
        \/ OpenFinish(c)
        \/ Collect(c)

InitConc ==
    /\ Init
    /\ k.key = [i \in 1..KeySize |-> i]

SpecConc == InitConc /\ [][NextConc]_vars

(***************************************************************************)
(* The life of an engine: construction from a key slice of any length,     *)
(* calls on the engine, and the caller writing to its key slice afterwards *)
(***************************************************************************)
KeyLens == {0, KeySize - 1, KeySize, KeySize + 1}
CtorKeys == {[i \in 1..n |-> (i * m) % 256] : n \in KeyLens, m \in KeyMults}

\* the caller calls NewRFC, NewDraft or New
Build ==
    /\ ctor.fn = "none"
    /\ \E fn \in Constructors, key \in CtorKeys :
          LET r == Construct(fn, key)
          IN  /\ k' = r.eng
              /\ ctor' = [fn |-> fn, arg |-> key, key0 |-> key,
                          err |-> r.err, isNil |-> r.isNil]
    /\ UNCHANGED <<pc, call, store, held, authPool, heap>>

\* between two calls the caller overwrites the first byte of its own key slice
CallerRewritesKey ==
    /\ ctor.fn # "none"
    /\ \A c \in Callers : pc[c] = "idle"
    /\ ctor.arg = ctor.key0
    /\ Len(ctor.arg) > 0
    /\ LET arg == FlipAt(ctor.arg, 0, 255)
       IN  /\ ctor' = [ctor EXCEPT !.arg = arg]
           /\ k' = IF ctor.isNil THEN k ELSE EngineAfterCallerWrite(k, arg)
    /\ UNCHANGED <<pc, call, store, held, authPool, heap>>

Usable == ctor.fn # "none" /\ ~ctor.isNil

NextLife ==
    \/ Build
    \/ CallerRewritesKey
    \/ Usable /\ SealBegin(1, DstNil, ValidNonces(k) \cup {Fill(4, 0)}, {<<1>>}, {<<7>>})
    \/ Usable /\ OpenBegin(1, DstNil, "conc")
    \/ AuthGet(1)
    \/ AuthWrite(1)
    \/ AuthSum(1)
    \/ SealReturn(1)
    \/ OpenFinish(1)
    \/ Collect(1)

InitLife ==
    /\ k = NilEngine
    /\ ctor = NoCtor
    /\ Idle

SpecLife == InitLife /\ [][NextLife]_vars

(***************************************************************************)
(* Framing: one caller, one key, all three constructors, and plaintexts    *)
(* and additional data whose lengths sit around the 16-byte block size     *)
(***************************************************************************)
FrameLens == {0, 1, poly1305PadLen - 1, poly1305PadLen, poly1305PadLen + 1}
FramePts == {Fill(n, 200) : n \in FrameLens}
FrameAads == {Fill(n, 7) : n \in FrameLens}
FrameKey == [i \in 1..KeySize |-> i]

NextFrame ==
    \/ SealBegin(1, DstNil, ValidNonces(k), FramePts, FrameAads)
    \/ OpenBegin(1, DstNil, "conc")
    \/ AuthGet(1)
    \/ AuthWrite(1)
    \/ AuthSum(1)
    \/ SealReturn(1)
    \/ OpenFinish(1)
    \/ Collect(1)

InitFrame ==
    /\ \E fn \in Constructors : Built(fn, FrameKey)
    /\ Idle

SpecFrame == InitFrame /\ [][NextFrame]_vars

(***************************************************************************)
(* Open on bytes of the caller's choosing: additional data and ciphertext  *)
(* bodies made of zero and non-zero bytes, short ones and ones around the  *)
(* block size, followed by an arbitrary tag                                *)
(***************************************************************************)
InjBytes == {0, 7}
InjSeqs == SeqsUpTo(InjBytes, MaxLen)
              \cup {Zeros(n) : n \in {poly1305PadLen - 1, poly1305PadLen, poly1305PadLen + 1}}

\* caller c calls k.Open(nil, nonce, ciphertext, data)
OpenRaw(c, cts, aads) ==
    /\ pc[c] = "idle"
    /\ \E ct \in cts, data \in aads, nonce \in ValidNonces(k) :
          LET base == [EmptyCall EXCEPT !.op = "Open", !.nonce = nonce,
                                        !.input = ct \o Zeros(TagSize),
                                        !.data = data]
          IN  Goto(c, OpenEnter(k, base, <<>>))
    /\ UNCHANGED <<k, ctor, held, authPool, heap>>

NextInj ==
    \/ OpenRaw(1, InjSeqs, InjSeqs)
    \/ AuthGet(1)
    \/ AuthWrite(1)
    \/ AuthSum(1)
    \/ OpenFinish(1)
    \/ Collect(1)

InitInj ==
    /\ \E fn \in {"NewRFC", "NewDraft"} : Built(fn, FrameKey)
    /\ Idle

SpecInj == InitInj /\ [][NextInj]_vars

(***************************************************************************)
(* A call run alone: the same pieces, with a MAC buffer nobody else has    *)
(***************************************************************************)
BaseOf(cl) ==
    [EmptyCall EXCEPT !.op = cl.op, !.nonce = cl.nonce, !.input = cl.input,
                      !.data = cl.data, !.dlen = cl.dlen, !.store0 = cl.store0,
                      !.scen = cl.scen]

AuthAlone(eng, e) ==
    StoreTag(e.call, e.store,
             MacSum(e.call.mkey, AuthFrame(eng.draft, e.call.body, e.call.data)))

SealAlone(eng, base, arr) ==
    LET e == SealEnter(eng, base, arr)
    IN  IF e.pc = "done" THEN e
        ELSE LET a == AuthAlone(eng, e) IN SealExit(a.call, a.store)

OpenAlone(eng, base, arr) ==
    LET e == OpenEnter(eng, base, arr)
    IN  IF e.pc = "done" THEN e
        ELSE LET a == AuthAlone(eng, e) IN OpenVerify(a.call, a.store)

Outcome(cl) == <<cl.retNil, cl.ret, cl.err, cl.panic>>

(***************************************************************************)
(* Properties                                                              *)
(***************************************************************************)
Returned(c, op) == pc[c] = "done" /\ call[c].op = op

GoodNonce(c) == Len(call[c].nonce) = NonceSize(k)

\* C1: round trip. Open of an untouched sealed message, under the nonce and
\* the associated data it was sealed with, returns a nil error and the
\* plaintext (after the bytes of dst; exactly the plaintext when dst is nil).
C1_RoundTrip ==
    \A c \in Callers :
        (Returned(c, "Open") /\ call[c].scen.kind = "exact" /\ GoodNonce(c))
            => /\ call[c].err = ErrNil
               /\ call[c].panic = PanicNone
               /\ ~call[c].retNil
               /\ Slice(call[c].ret, call[c].dlen, Len(call[c].ret)) = held[c].pt
               /\ Slice(call[c].ret, 0, call[c].dlen) = Slice(call[c].store0, 0, call[c].dlen)

C1_Witness ==
    \E c \in Callers :
        /\ Returned(c, "Open") /\ call[c].scen.kind = "exact" /\ GoodNonce(c)
        /\ call[c].store0 = <<>>
        /\ Len(held[c].pt) >= 1 /\ Len(held[c].aad) >= 1
        /\ call[c].err = ErrNil
        /\ call[c].ret = held[c].pt

\* C2: tamper sensitivity. One flipped bit in the ciphertext body, in the
\* tag or in the associated data makes Open return ErrAuthFailed.
C2_Tamper ==
    \A c \in Callers :
        (Returned(c, "Open") /\ GoodNonce(c)
           /\ call[c].scen.kind \in {"flipct", "fliptag", "flipaad"})
            => call[c].err = ErrAuthFailed /\ call[c].panic = PanicNone

C2_Witness ==
    \E c \in Callers :
        /\ Returned(c, "Open") /\ GoodNonce(c)
        /\ call[c].scen.kind = "flipaad"
        /\ call[c].data # held[c].aad
        /\ call[c].input = held[c].ct
        /\ call[c].err = ErrAuthFailed

\* C3: buffer hygiene. After Open returned ErrAuthFailed for a tag mismatch,
\* every byte of the array behind dst is zero.
C3_ZeroedOnAuthFailure ==
    \A c \in Callers :
        (Returned(c, "Open") /\ call[c].err = ErrAuthFailed
           /\ Len(call[c].input) >= TagSize)
            => store[c] = Zeros(Len(store[c]))

\* C4: shape of Seal's result. It starts with the bytes of dst, is followed
\* by exactly len(plaintext) + Overhead() bytes, and lives in the array of
\* dst exactly when that array has the capacity.
C4_SealShape ==
    \A c \in Callers :
        (Returned(c, "Seal") /\ call[c].panic = PanicNone)
            => LET cl    == call[c]
                   total == cl.dlen + Len(cl.input) + Overhead
               IN  /\ ~cl.retNil
                   /\ Len(cl.ret) = total
                   /\ Slice(cl.ret, 0, cl.dlen) = Slice(cl.store0, 0, cl.dlen)
                   /\ Slice(cl.ret, cl.dlen, cl.dlen + Len(cl.input)) = cl.body
                   /\ Len(cl.body) = Len(cl.input)
                   /\ cl.alias = (Len(cl.store0) >= total)
                   /\ cl.alias => Slice(store[c], 0, total) = cl.ret
                   /\ ~cl.alias => store[c] = cl.store0

C4_Witness ==
    \E c \in Callers :
        /\ Returned(c, "Seal") /\ call[c].panic = PanicNone
        /\ call[c].dlen = 1 /\ Len(call[c].store0) = 1
        /\ Len(call[c].input) >= 1
        /\ call[c].ret[1] = PreFill
        /\ Len(call[c].ret) = 1 + Len(call[c].input) + Overhead

\* C5: truncated input. With a nonce of the right length, an input shorter
\* than Overhead() gives ErrAuthFailed with no panic and nothing sliced; an
\* input of exactly Overhead() bytes reaches the tag computation with an
\* empty ciphertext body.
C5_Truncated ==
    \A c \in Callers :
        (Returned(c, "Open") /\ GoodNonce(c))
            => /\ Len(call[c].input) < Overhead
                    => /\ call[c].err = ErrAuthFailed
                       /\ call[c].panic = PanicNone
                       /\ call[c].retNil
                       /\ call[c].tag = <<>> /\ ~call[c].c.live
               /\ Len(call[c].input) = Overhead
                    => /\ call[c].panic = PanicNone
                       /\ call[c].tag = call[c].input
                       /\ call[c].body = <<>>
                       /\ call[c].c.live
                       /\ call[c].expectedTag =
                             MacSum(call[c].mkey,
                                    AuthFrame(k.draft, <<>>, call[c].data))

C5_Witness ==
    \E c \in Callers :
        /\ Returned(c, "Open") /\ GoodNonce(c)
        /\ Len(call[c].input) = Overhead - 1
        /\ call[c].err = ErrAuthFailed

C8_SealInvalidNonce ==
    \A c \in Callers :
        (call[c].op = "Seal" /\ ~GoodNonce(c))
            => /\ pc[c] = "done"
               /\ call[c].panic = ErrInvalidNonce
               /\ call[c].retNil /\ call[c].ret = <<>>
               /\ ~call[c].c.live /\ call[c].pk = <<>>
               /\ store[c] = call[c].store0

C8_Witness ==
    \E c \in Callers :
        /\ Returned(c, "Seal") /\ ~GoodNonce(c)
        /\ Len(call[c].nonce) = NonceSize(k) - 3
        /\ Len(store[c]) > 0
        /\ call[c].panic = ErrInvalidNonce

\* C9: no value alongside an error. Whenever Open ends with a non-nil error
\* the slice it returns is nil.
C9_NoValueWithError ==
    \A c \in Callers :
        (Returned(c, "Open") /\ call[c].err # ErrNil)
            => call[c].retNil /\ call[c].ret = <<>>

C9_Witness ==
    \E c \in Callers :
        /\ Returned(c, "Open") /\ call[c].err = ErrAuthFailed
        /\ Len(call[c].input) > TagSize
        /\ call[c].scen.kind = "fliptag"
        /\ call[c].retNil

\* C10: concurrent use. Whatever the interleaving, the MAC buffer of a call
\* holds that call's frame and nothing else, and the call ends with the
\* outcome it has when run alone on the same arguments.
C10_Concurrent ==
    \A c \in Callers :
        /\ pc[c] = "auth_sum"
              => heap[call[c].mbuf] =
                    AuthFrame(k.draft, call[c].body, call[c].data)
        /\ Returned(c, "Seal")
              => Outcome(call[c]) = Outcome(SealAlone(k, BaseOf(call[c]), call[c].store0).call)
        /\ Returned(c, "Open")
              => Outcome(call[c]) = Outcome(OpenAlone(k, BaseOf(call[c]), call[c].store0).call)

C10_Witness ==
    \E c, d \in Callers :
        /\ c # d
        /\ pc[c] = "auth_sum" /\ call[c].op = "Seal"
        /\ pc[d] = "auth_sum" /\ call[d].op = "Open"
        /\ call[c].mbuf # call[d].mbuf
        /\ heap[call[c].mbuf] # heap[call[d].mbuf]

\* C11 as stated: ephemeral secrets are wiped. When Seal or Open has
\* returned, on whatever exit path, the 64-byte buffer pk that held the
\* one-time subkey and the discarded keystream holds only zeros.
C11_PkWiped ==
    \A c \in Callers :
        (pc[c] = "done" /\ call[c].pk # <<>>)
            => call[c].pk = Zeros(PkLen)

\* C12: construction. NewRFC, NewDraft and New return ErrInvalidKey and a
\* nil engine exactly when the key is not 32 bytes long; with a 32-byte key
\* they return a nil error and an engine that holds the key and seals.
C12_Construction ==
    ctor.fn # "none"
        => /\ (ctor.err = ErrInvalidKey /\ ctor.isNil) <=> (Len(ctor.key0) # 32)
           /\ ctor.isNil => k = NilEngine /\ ctor.err = ErrInvalidKey
           /\ Len(ctor.key0) = 32
                => /\ ctor.err = ErrNil /\ ~ctor.isNil
                   /\ Len(k.key) = KeySize
                   /\ \A c \in Callers :
                        (Returned(c, "Seal") /\ GoodNonce(c))
                            => /\ call[c].panic = PanicNone
                               /\ Len(call[c].ret) = Len(call[c].input) + Overhead
           /\ \A c \in Callers : pc[c] # "idle" => ~ctor.isNil

C12_Witness ==
    /\ ctor.fn = "New"
    /\ Len(ctor.key0) = KeySize - 1
    /\ ctor.err = ErrInvalidKey
    /\ ctor.isNil

\* C13: NonceSize() is 12 for an engine built by NewRFC and 8 for one built
\* by NewDraft or New, in every state of the engine's life, whatever Seal
\* and Open calls have succeeded or failed on it.
C13_NonceSizeFixed ==
    Usable => NonceSize(k) = (IF ctor.fn = "NewRFC" THEN 12 ELSE 8)

C13_Witness ==
    /\ ctor.fn = "NewRFC"
    /\ Returned(1, "Open") /\ call[1].err = ErrAuthFailed
    /\ held[1].has
    /\ NonceSize(k) = 12

C16_KeyImmutable ==
    Usable
        => /\ k.key = ctor.key0
           /\ k.draft = (ctor.fn # "NewRFC")
           /\ \A c \in Callers :
                LET fresh == Construct(ctor.fn, ctor.key0).eng
                IN  /\ Returned(c, "Seal")
                       => Outcome(call[c]) =
                             Outcome(SealAlone(fresh, BaseOf(call[c]), call[c].store0).call)
                    /\ Returned(c, "Open")
                       => Outcome(call[c]) =
                             Outcome(OpenAlone(fresh, BaseOf(call[c]), call[c].store0).call)

C16_Witness ==
    /\ Usable
    /\ ctor.arg # ctor.key0
    /\ k.key # ctor.arg
    /\ Returned(1, "Open") /\ call[1].err = ErrNil
    /\ call[1].ret = held[1].pt

\* C17: RFC-style MAC framing. For an engine built by NewRFC, in Seal and in
\* Open, the bytes fed to the MAC are the additional data, zero bytes up to
\* the next multiple of 16 (none at a multiple, at most 15), the ciphertext
\* (the bytes Seal outputs, the bytes Open received), zero bytes by the same
\* rule, then both lengths as 8 little-endian bytes.
C17_RFCFrame ==
    \A c \in Callers :
        (pc[c] = "auth_sum" /\ ctor.fn = "NewRFC")
            => LET le(n)  == <<n % 256, (n \div 256) % 256, 0, 0, 0, 0, 0, 0>>
                   pad(n) == CHOOSE p \in 0..15 : (n + p) % 16 = 0
                   aad    == call[c].data
                   ct     == IF call[c].op = "Seal"
                             THEN Slice(call[c].head, call[c].dlen,
                                        call[c].dlen + Len(call[c].input))
                             ELSE Slice(call[c].input, 0, Len(call[c].input) - TagSize)
               IN  heap[call[c].mbuf] =
                      aad \o Zeros(pad(Len(aad))) \o ct \o Zeros(pad(Len(ct)))
                          \o le(Len(aad)) \o le(Len(ct))

C17_Witness ==
    /\ pc[1] = "auth_sum" /\ ctor.fn = "NewRFC" /\ call[1].op = "Open"
    /\ Len(call[1].data) = 17 /\ Len(call[1].input) = 16 + TagSize
    /\ Len(heap[call[1].mbuf]) = 32 + 16 + 8 + 8

C19_ReservedPerVariant ==
    \A c \in Callers :
        (pc[c] = "auth_get")
            => LET xored == IF call[c].op = "Seal" THEN Len(call[c].input) ELSE 0
               IN  call[c].c.pos - xored = (IF k.draft THEN 64 ELSE 32)

\* C19 amended: in both variants, before the data XOR starts, Seal and Open
\* have taken 64 bytes of keystream from the cipher (one block): the first 32
\* are the subkey, the other 32 are used for nothing.
C19_Reserved64 ==
    \A c \in Callers :
        call[c].c.live
            => LET cl    == call[c]
                   seed  == StreamSeed(k.key, cl.nonce)
                   xored == IF cl.op = "Seal" THEN Len(cl.input)
                            ELSE IF pc[c] = "done" /\ cl.err = ErrNil
                                 THEN Len(cl.body) ELSE 0
               IN  /\ cl.c.pos - xored = 64
                   /\ Len(cl.pk) = 64
                   /\ \A i \in 1..64 : cl.pk[i] = KeystreamByte(seed, i - 1)
                   /\ cl.mkey = SubSeq(cl.pk, 1, 32)

C19_Witness ==
    \E c \in Callers :
        /\ ~k.draft
        /\ pc[c] = "auth_get" /\ call[c].op = "Open"
        /\ call[c].c.live /\ call[c].c.pos = 64
        /\ Len(call[c].body) = MaxLen

\* C20: subkey and data keystream. In Seal and in Open, the one-time MAC key
\* is the first 32 keystream bytes of (key, nonce) from position 0, byte i of
\* the data is XORed with keystream byte 64 + i (block counter 1 onwards),
\* at the same positions in both calls, so that no byte of block 0 is ever
\* XORed into plaintext or ciphertext.
C20_KeystreamPositions ==
    \A c \in Callers :
        call[c].c.live
            => LET cl   == call[c]
                   seed == StreamSeed(k.key, cl.nonce)
                   ks(p) == KeystreamByte(seed, p)
               IN  /\ cl.mkey = [i \in 1..32 |-> ks(i - 1)]
                   /\ cl.op = "Seal"
                        => /\ Len(cl.body) = Len(cl.input)
                           /\ \A i \in 1..Len(cl.input) :
                                cl.body[i] = XorByte(cl.input[i], ks(64 + i - 1))
                           /\ Slice(cl.head, cl.dlen, cl.dlen + Len(cl.input)) = cl.body
                   /\ (cl.op = "Open" /\ pc[c] = "done" /\ cl.err = ErrNil)
                        => /\ Len(cl.ret) = cl.dlen + Len(cl.body)
                           /\ \A i \in 1..Len(cl.body) :
                                cl.ret[cl.dlen + i] = XorByte(cl.body[i], ks(64 + i - 1))
                   /\ (cl.op = "Open" /\ ~(pc[c] = "done" /\ cl.err = ErrNil))
                        => cl.c.pos = 64

C20_Witness ==
    \E c \in Callers :
        /\ Returned(c, "Open") /\ call[c].err = ErrNil
        /\ call[c].c.live /\ call[c].c.pos = 64 + MaxLen
        /\ Len(call[c].body) = MaxLen
        /\ call[c].nonce = held[c].nonce
        /\ Slice(call[c].ret, call[c].dlen, Len(call[c].ret)) = held[c].pt

C22_FramingInjective ==
    \A c \in Callers :
        pc[c] = "auth_sum"
            => \A aad2 \in InjSeqs, ct2 \in InjSeqs :
                  (aad2 # call[c].data \/ ct2 # call[c].body)
                      => AuthFrame(k.draft, ct2, aad2) # heap[call[c].mbuf]

C22_Witness ==
    \E c \in Callers :
        /\ pc[c] = "auth_sum" /\ ~k.draft
        /\ call[c].data = Zeros(poly1305PadLen) /\ call[c].body = <<0>>
        /\ Len(heap[call[c].mbuf]) = 48
        /\ Len(AuthFrame(k.draft, <<>>, Zeros(poly1305PadLen + 1))) = 48
        /\ AuthFrame(k.draft, <<>>, Zeros(poly1305PadLen + 1)) # heap[call[c].mbuf]

=============================================================================
